---- MODULE Spec2Model ----
(***************************************************************************)
(* Persisted-state utilities of the Tomo workspace: readFromStorage,       *)
(* writeToStorage and usePersistentState (src/lib/storage.ts), the session *)
(* helpers built on them (src/lib/auth.ts), and the pages and components   *)
(* that own the persisted keys.                                            *)
(*                                                                         *)
(* JavaScript values are pairs <<type, payload>>; the text localStorage     *)
(* holds is a sequence of one-character strings.                           *)
(***************************************************************************)
EXTENDS Integers, Sequences, FiniteSets, TLC

(***************************************************************************)
(* Bounds of the model.                                                    *)
(***************************************************************************)
\* longest string value written by a caller
MaxStrLen == 1
\* longest array a binding's updater may grow
MaxArrLen == 1

(***************************************************************************)
(* JavaScript values.                                                      *)
(***************************************************************************)
Undefined == <<"undefined", <<>>>>
Null == <<"null", <<>>>>
\* Number.NaN: a number that JSON cannot represent
NaN == <<"nan", <<>>>>
\* an object that references itself (or a BigInt): JSON.stringify throws on it
Cyclic == <<"cyclic", <<>>>>
Bool(b) == <<"boolean", b>>
Num(n) == <<"number", n>>
Str(s) == <<"string", s>>
Arr(es) == <<"array", es>>
\* an object is the sequence of its own properties <<name, value>>, in insertion order
Obj(ps) == <<"object", ps>>
TypeOf(val) == val[1]
Payload(val) == val[2]

(***************************************************************************)
(* Text: sequences of characters.                                          *)
(***************************************************************************)
DQ == "\""
BS == "\\"
DigitChars == <<"0", "1", "2", "3", "4", "5", "6", "7", "8", "9">>
NullText == <<"n", "u", "l", "l">>
TrueText == <<"t", "r", "u", "e">>
FalseText == <<"f", "a", "l", "s", "e">>
\* String(undefined), what setItem stores when handed undefined
UndefinedText == <<"u", "n", "d", "e", "f", "i", "n", "e", "d">>

IsPrefix(p, s) == Len(p) <= Len(s) /\ SubSeq(s, 1, Len(p)) = p
Drop(s, n) == SubSeq(s, n + 1, Len(s))

(***************************************************************************)
(* JSON.stringify.  The result is [k, s]: k = "text" with the text s,      *)
(* k = "undefined" when stringify returns undefined, k = "throw" when it   *)
(* throws a TypeError.                                                     *)
(***************************************************************************)
Text(s) == [k |-> "text", s |-> s]
NoText == [k |-> "undefined", s |-> <<>>]
Throws == [k |-> "throw", s |-> <<>>]

RECURSIVE NumberToText(_)
NumberToText(n) ==
  IF n < 10 THEN <<DigitChars[n + 1]>>
  ELSE NumberToText(n \div 10) \o <<DigitChars[(n % 10) + 1]>>

RECURSIVE QuoteChars(_)
QuoteChars(s) ==
  IF s = <<>> THEN <<>>
  ELSE (IF Head(s) \in {DQ, BS} THEN <<BS, Head(s)>> ELSE <<Head(s)>>)
       \o QuoteChars(Tail(s))

QuoteJSONString(s) == <<DQ>> \o QuoteChars(s) \o <<DQ>>

RECURSIVE SerializeJSONProperty(_)
RECURSIVE SerializeJSONArray(_, _)
RECURSIVE SerializeJSONObject(_, _)

SerializeJSONProperty(val) ==
  CASE TypeOf(val) = "undefined" -> NoText
    [] TypeOf(val) = "null" -> Text(NullText)
    [] TypeOf(val) = "nan" -> Text(NullText)
    [] TypeOf(val) = "boolean" -> Text(IF Payload(val) THEN TrueText ELSE FalseText)
    [] TypeOf(val) = "number" -> Text(NumberToText(Payload(val)))
    [] TypeOf(val) = "string" -> Text(QuoteJSONString(Payload(val)))
    [] TypeOf(val) = "array" ->
         LET r == SerializeJSONArray(Payload(val), TRUE)
         IN IF r.k = "throw" THEN Throws ELSE Text(<<"[">> \o r.s \o <<"]">>)
    [] TypeOf(val) = "object" ->
         LET r == SerializeJSONObject(Payload(val), TRUE)
         IN IF r.k = "throw" THEN Throws ELSE Text(<<"{">> \o r.s \o <<"}">>)
    [] OTHER -> Throws

\* the elements of an array, comma separated; undefined elements become null
SerializeJSONArray(es, first) ==
  IF es = <<>> THEN Text(<<>>)
  ELSE LET h == SerializeJSONProperty(Head(es))
           r == SerializeJSONArray(Tail(es), FALSE)
           sep == IF first THEN <<>> ELSE <<",">>
       IN IF h.k = "throw" \/ r.k = "throw" THEN Throws
          ELSE Text(sep \o (IF h.k = "undefined" THEN NullText ELSE h.s) \o r.s)

\* the properties of an object, comma separated; undefined properties are left out
SerializeJSONObject(ps, first) ==
  IF ps = <<>> THEN Text(<<>>)
  ELSE LET h == SerializeJSONProperty(Head(ps)[2])
           r == SerializeJSONObject(Tail(ps), first /\ h.k = "undefined")
           sep == IF first THEN <<>> ELSE <<",">>
       IN IF h.k = "throw" \/ r.k = "throw" THEN Throws
          ELSE IF h.k = "undefined" THEN r
          ELSE Text(sep \o QuoteJSONString(Head(ps)[1]) \o <<":">> \o h.s \o r.s)

\* JSON.stringify(value)
Stringified(value) == SerializeJSONProperty(value)

(***************************************************************************)
(* JSON.parse.  A parse step returns [ok, val, rest]; JSON.parse throws a  *)
(* SyntaxError unless one value spans the whole text.                      *)
(***************************************************************************)
Parsed(val, rest) == [ok |-> TRUE, val |-> val, rest |-> rest]
NoParse == [ok |-> FALSE, val |-> Null, rest |-> <<>>]

IsDigit(c) == \E i \in 1..10 : DigitChars[i] = c
DigitValue(c) == (CHOOSE i \in 1..10 : DigitChars[i] = c) - 1

RECURSIVE ParseDigits(_, _)
ParseDigits(s, acc) ==
  IF s # <<>> /\ IsDigit(Head(s))
  THEN ParseDigits(Tail(s), acc * 10 + DigitValue(Head(s)))
  ELSE Parsed(Num(acc), s)

\* a JSON number: no leading zero before further digits
ParseNumber(s) ==
  IF Head(s) = "0"
  THEN IF Len(s) > 1 /\ IsDigit(s[2]) THEN NoParse ELSE Parsed(Num(0), Tail(s))
  ELSE ParseDigits(s, 0)

\* the characters of a string after its opening quote, up to the closing one
RECURSIVE ParseChars(_, _)
ParseChars(s, acc) ==
  IF s = <<>> THEN NoParse
  ELSE IF Head(s) = DQ THEN Parsed(Str(acc), Tail(s))
  ELSE IF Head(s) = BS
       THEN IF Len(s) > 1 /\ s[2] \in {DQ, BS}
            THEN ParseChars(Drop(s, 2), Append(acc, s[2]))
            ELSE NoParse
  ELSE ParseChars(Tail(s), Append(acc, Head(s)))

RECURSIVE ParseValue(_)
RECURSIVE ParseElements(_, _)
RECURSIVE ParseMembers(_, _)

ParseValue(s) ==
  IF s = <<>> THEN NoParse
  ELSE IF IsPrefix(NullText, s) THEN Parsed(Null, Drop(s, Len(NullText)))
  ELSE IF IsPrefix(TrueText, s) THEN Parsed(Bool(TRUE), Drop(s, Len(TrueText)))
  ELSE IF IsPrefix(FalseText, s) THEN Parsed(Bool(FALSE), Drop(s, Len(FalseText)))
  ELSE IF IsDigit(Head(s)) THEN ParseNumber(s)
  ELSE IF Head(s) = DQ THEN ParseChars(Tail(s), <<>>)
  ELSE IF Head(s) = "["
       THEN IF Len(s) > 1 /\ s[2] = "]" THEN Parsed(Arr(<<>>), Drop(s, 2))
            ELSE ParseElements(Tail(s), <<>>)
  ELSE IF Head(s) = "{"
       THEN IF Len(s) > 1 /\ s[2] = "}" THEN Parsed(Obj(<<>>), Drop(s, 2))
            ELSE ParseMembers(Tail(s), <<>>)
  ELSE NoParse

\* the elements of a non-empty array, after "[" or ","
ParseElements(s, acc) ==
  LET e == ParseValue(s)
  IN IF ~e.ok \/ e.rest = <<>> THEN NoParse
     ELSE IF Head(e.rest) = "," THEN ParseElements(Tail(e.rest), Append(acc, e.val))
     ELSE IF Head(e.rest) = "]" THEN Parsed(Arr(Append(acc, e.val)), Tail(e.rest))
     ELSE NoParse

\* the members of a non-empty object, after "{" or ","
ParseMembers(s, acc) ==
  IF s = <<>> \/ Head(s) # DQ THEN NoParse
  ELSE LET name == ParseChars(Tail(s), <<>>)
       IN IF ~name.ok \/ name.rest = <<>> \/ Head(name.rest) # ":" THEN NoParse
          ELSE LET e == ParseValue(Tail(name.rest))
                   \* a repeated name keeps its first position and its last value
                   seen == {i \in 1..Len(acc) : acc[i][1] = Payload(name.val)}
                   next == IF seen = {}
                           THEN Append(acc, <<Payload(name.val), e.val>>)
                           ELSE [i \in 1..Len(acc) |->
                                   IF i \in seen THEN <<Payload(name.val), e.val>> ELSE acc[i]]
               IN IF ~e.ok \/ e.rest = <<>> THEN NoParse
                  ELSE IF Head(e.rest) = "," THEN ParseMembers(Tail(e.rest), next)
                  ELSE IF Head(e.rest) = "}" THEN Parsed(Obj(next), Tail(e.rest))
                  ELSE NoParse

\* JSON.parse(text); [ok |-> FALSE] stands for the SyntaxError it throws
Parse(text) ==
  LET r == ParseValue(text)
  IN IF r.ok /\ r.rest = <<>> THEN r ELSE NoParse

(***************************************************************************)
(* The persisted key space and the values callers store.                   *)
(***************************************************************************)
\* src/lib/auth.ts: const KEY
KEY == "tomo-session"
Keys ==
  {KEY, "tomo-onboarding", "tomo-chat", "tomo-funds", "tomo-active-fund",
   "tomo-pane-width", "tomo-target-lists", "tomo-detail-height"}

\* localStorage.getItem returns null for a key that holds no item
NoItem == <<"(no item)">>

\* the default width of the list pane, AppShell's initial value for tomo-pane-width
PaneWidthDefault == 42

EmailName == <<"e", "m", "a", "i", "l">>
PlanName == <<"p", "l", "a", "n">>
OnboardingCompleteName == <<"o", "n", "b", "o", "a", "r", "d", "i", "n", "g",
                            "C", "o", "m", "p", "l", "e", "t", "e">>

\* SessionState of src/lib/types: {email, plan, onboardingComplete}
SessionState(email, plan, complete) ==
  Obj(<< <<EmailName, Str(email)>>, <<PlanName, Str(plan)>>,
         <<OnboardingCompleteName, Bool(complete)>> >>)
Emails == {<<"a">>, <<"b">>}
Individual == <<"i">>
Team == <<"t">>
Sessions == {SessionState(e, Individual, c) : e \in Emails, c \in BOOLEAN}
\* the plans of the auth page's plan cards, and the sessions its form can make
Plans == {Individual, Team}
FormSessions == {SessionState(e, p, c) : e \in Emails, p \in Plans, c \in BOOLEAN}

RECURSIVE StringsUpTo(_)
StringsUpTo(n) ==
  IF n = 0 THEN {<<>>}
  ELSE LET shorter == StringsUpTo(n - 1)
       IN shorter \cup {Append(s, c) : s \in shorter, c \in {"a", DQ}}

\* the arrays [0, ..., 0] of up to n elements
RECURSIVE ArraysUpTo(_)
ArraysUpTo(n) ==
  IF n = 0 THEN {Arr(<<>>)}
  ELSE ArraysUpTo(n - 1) \cup {Arr([i \in 1..n |-> Num(0)])}

\* values callers hand to the storage functions
Values ==
  {Undefined, Null, NaN, Cyclic, Bool(FALSE), Num(PaneWidthDefault),
   Arr(<<Num(0), Undefined>>),
   Obj(<< <<EmailName, Undefined>>, <<PlanName, Str(Team)>> >>),
   SessionState(<<"a">>, Individual, FALSE)}
  \cup {Str(s) : s \in StringsUpTo(MaxStrLen)}

\* fallbacks callers hand to readFromStorage
Fallbacks == {Null, Num(PaneWidthDefault), Arr(<<>>)}

\* text an earlier page load, another version of the app or the user left
\* under a key: nothing, the empty string, text that is not JSON, JSON
LegacyTexts ==
  {NoItem, <<>>, <<"[", "0">>, NumberToText(PaneWidthDefault),
   Stringified(SessionState(<<"a">>, Individual, TRUE)).s}

\* {...obj, [name]: val}: val takes the place of the property name where obj
\* has one, and follows the other properties where it has none
HasProperty(obj, name) ==
  TypeOf(obj) = "object" /\ \E i \in 1..Len(Payload(obj)) : Payload(obj)[i][1] = name
Spread(obj, name, val) ==
  IF HasProperty(obj, name)
  THEN Obj([i \in 1..Len(Payload(obj)) |->
              IF Payload(obj)[i][1] = name THEN <<name, val>> ELSE Payload(obj)[i]])
  ELSE Obj(Append(Payload(obj), <<name, val>>))
\* obj?.name
Property(obj, name) ==
  IF HasProperty(obj, name)
  THEN Payload(obj)[CHOOSE i \in 1..Len(Payload(obj)) : Payload(obj)[i][1] = name][2]
  ELSE Undefined

\* OnboardingState of src/lib/types, by the properties the handlers below set:
\* the other connection flags and the notification table are left out
CalendarConnectedName == <<"c", "a", "l", "e", "n", "d", "a", "r", "C", "o", "n", "n", "e", "c",
    "t", "e", "d">>
AffinityConnectedName == <<"a", "f", "f", "i", "n", "i", "t", "y", "C", "o", "n", "n", "e", "c",
    "t", "e", "d">>
AffinityListIdName == <<"a", "f", "f", "i", "n", "i", "t", "y", "L", "i", "s", "t", "I", "d">>
AffinityTokenLast4Name == <<"a", "f", "f", "i", "n", "i", "t", "y", "T", "o", "k", "e", "n", "L",
    "a", "s", "t", "4">>
CompletedName == <<"c", "o", "m", "p", "l", "e", "t", "e", "d">>
\* OnboardingPage's initialState and SettingsPage's initial value
initialState ==
  Obj(<< <<CalendarConnectedName, Bool(FALSE)>>, <<AffinityConnectedName, Bool(FALSE)>>,
         <<CompletedName, Bool(FALSE)>> >>)
\* the onboarding states with the calendar connected or not, completed or not
OnboardingStates ==
  {Spread(Spread(initialState, CalendarConnectedName, Bool(calendar)),
          CompletedName, Bool(completed)) : calendar, completed \in BOOLEAN}
\* what the list id field of the Affinity forms is filled with
ListIds == {<<"l">>}

\* FundProvider's defaultFunds, a fund by its id, and the "all" of no selection
IdName == <<"i", "d">>
Fund(id) == Obj(<< <<IdName, Str(id)>> >>)
defaultFunds == Arr(<<Fund(<<"1">>), Fund(<<"2">>), Fund(<<"3">>)>>)
AllFunds == <<"a", "l", "l">>
\* what the fund selector is set to
FundChoices == {AllFunds, <<"1">>}

\* a chat message by its sender (id, text and timestamp are left out), and
\* initialMessages, the two messages of tomo a chat starts with
FromName == <<"f", "r", "o", "m">>
Tomo == <<"t", "o", "m", "o">>
User == <<"u", "s", "e", "r">>
TomoMessage(from) == Obj(<< <<FromName, Str(from)>> >>)
initialMessages == Arr(<<TomoMessage(Tomo), TomoMessage(Tomo)>>)

\* the calls of a handler that starts a timer or a mock call
MaxCalls == 2
\* the chats that many sends and their replies make of initialMessages
Chats ==
  {Arr(Payload(initialMessages) \o later) :
     later \in UNION {[1..n -> {TomoMessage(User), TomoMessage(Tomo)}] : n \in 0..(2 * MaxCalls)}}

\* the bounds handleMove clamps the width of the list pane to
MinPaneWidth == 28
MaxPaneWidth == 65

\* JSON.stringify and JSON.parse are evaluated once for the values and texts
\* the model meets, and by the definitions above for any other
StringifyTable ==
  [value \in Values \cup Sessions \cup ArraysUpTo(MaxArrLen + 1) \cup Chats
             \cup FormSessions \cup OnboardingStates |->
     Stringified(value)]
JSONstringify(value) ==
  IF value \in DOMAIN StringifyTable THEN StringifyTable[value] ELSE Stringified(value)
ParseTable ==
  [text \in (LegacyTexts \ {NoItem})
            \cup {StringifyTable[value].s : value \in DOMAIN StringifyTable}
            \cup {UndefinedText} |-> Parse(text)]
JSONparse(text) ==
  IF text \in DOMAIN ParseTable THEN ParseTable[text] ELSE Parse(text)

(***************************************************************************)
(* State.                                                                  *)
(***************************************************************************)
VARIABLES
  hasWindow,      \* typeof window !== "undefined": FALSE while rendering on the server
  storageDenied,  \* the window.localStorage getter throws a SecurityError
  store,          \* window.localStorage: key -> text, NoItem where no item is held
  hooks,          \* the usePersistentState bindings of the mounted components
  lastOp,         \* the call that ended last, as its caller observed it
  route,          \* the route the browser shows
  pending,        \* the mount effects of the route's components have not run yet
  writers,        \* key -> the components that have set or removed its item
  local,          \* the useState values of the page that is mounted
  tasks           \* the timers and mock integration calls that have not completed

vars ==
  <<hasWindow, storageDenied, store, hooks, lastOp, route, pending, writers, local, tasks>>
\* the state of the application's pages, which the calls below leave alone
appVars == <<route, pending, writers, local, tasks>>

\* how a call ends: its return value, whether an exception was thrown inside
\* it, and whether one reached the caller
Returns(val) == [ret |-> val, threw |-> FALSE, raised |-> FALSE]
Raises == [ret |-> Undefined, threw |-> TRUE, raised |-> TRUE]
\* try { body } catch { handler }
TryCatch(body, handler) ==
  IF body.raised THEN [handler EXCEPT !.threw = TRUE] ELSE body

(***************************************************************************)
(* readFromStorage(key, fallback), on the store st.                        *)
(***************************************************************************)
\* JavaScript's falsy values
Falsy(val) == val \in {Undefined, Null, NaN, Bool(FALSE), Num(0), Str(<<>>)}

\* a variant that tests the parsed value, not the raw text: JSON.parse(raw) || fallback
ReadTryBlockFalsy(st, key, fallback) ==
  IF storageDenied THEN Raises
  ELSE LET raw == st[key]
           parsed == JSONparse(IF raw = NoItem THEN NullText ELSE raw)
       IN IF ~parsed.ok THEN Raises
          ELSE IF Falsy(parsed.val) THEN Returns(fallback) ELSE Returns(parsed.val)

\* a variant without the !raw test: JSON.parse(null) is null
ReadTryBlockNoGuard(st, key, fallback) ==
  IF storageDenied THEN Raises
  ELSE LET raw == st[key]
           parsed == JSONparse(IF raw = NoItem THEN NullText ELSE raw)
       IN IF parsed.ok THEN Returns(parsed.val) ELSE Raises

ReadTryBlock(st, key, fallback) ==
  IF storageDenied THEN Raises
  ELSE LET raw == st[key]
       IN IF raw = NoItem \/ raw = <<>> THEN Returns(fallback)
          ELSE LET parsed == JSONparse(raw)
               IN IF parsed.ok THEN Returns(parsed.val) ELSE Raises

\* a variant without the try/catch
readFromStorageNoCatch(st, key, fallback) ==
  IF ~hasWindow THEN Returns(fallback) ELSE ReadTryBlock(st, key, fallback)

readFromStorage(st, key, fallback) ==
  IF ~hasWindow THEN Returns(fallback)
  ELSE TryCatch(ReadTryBlock(st, key, fallback), Returns(fallback))

(***************************************************************************)
(* writeToStorage(key, value), on the store st; quota says that setItem    *)
(* throws a QuotaExceededError for this item.  The result carries the      *)
(* store the call leaves.                                                  *)
(***************************************************************************)
Stored(st) == [Returns(Undefined) EXCEPT !.ret = st]
\* String(JSON.stringify(value)), the text setItem is handed
ItemText(value) ==
  LET json == JSONstringify(value)
  IN IF json.k = "undefined" THEN UndefinedText ELSE json.s

\* a variant that keeps an item the key already holds
WriteTryBlockKeepFirst(st, key, value, quota) ==
  IF storageDenied \/ JSONstringify(value).k = "throw" \/ quota THEN Raises
  ELSE IF st[key] # NoItem THEN Stored(st)
  ELSE Stored([st EXCEPT ![key] = ItemText(value)])

WriteTryBlock(st, key, value, quota) ==
  IF storageDenied \/ JSONstringify(value).k = "throw" \/ quota THEN Raises
  ELSE Stored([st EXCEPT ![key] = ItemText(value)])

\* a variant without the try/catch
writeToStorageNoCatch(st, key, value, quota) ==
  IF ~hasWindow THEN Stored(st) ELSE WriteTryBlock(st, key, value, quota)

\* a variant without the typeof window test, run where some global store exists
writeToStorageNoGuard(st, key, value, quota) ==
  TryCatch(WriteTryBlock(st, key, value, quota), Stored(st))

\* a variant whose catch removes the item of the key
writeToStorageRemoving(st, key, value, quota) ==
  IF ~hasWindow THEN Stored(st)
  ELSE TryCatch(WriteTryBlock(st, key, value, quota), Stored([st EXCEPT ![key] = NoItem]))

writeToStorage(st, key, value, quota) ==
  IF ~hasWindow THEN Stored(st)
  ELSE TryCatch(WriteTryBlock(st, key, value, quota), Stored(st))

(***************************************************************************)
(* The session helpers of src/lib/auth.ts.                                 *)
(***************************************************************************)
getSession(st) == readFromStorage(st, KEY, Null)

setSession(st, session, quota) == writeToStorage(st, KEY, session, quota)

\* a variant that calls localStorage.clear()
clearSessionClearing(st) ==
  IF ~hasWindow THEN Stored(st)
  ELSE IF storageDenied THEN Raises
  ELSE Stored([k \in Keys |-> NoItem])

clearSession(st) ==
  IF ~hasWindow THEN Stored(st)
  ELSE IF storageDenied THEN Raises
  ELSE Stored([st EXCEPT ![KEY] = NoItem])

(***************************************************************************)
(* Calls of the storage functions and of the session helpers.              *)
(***************************************************************************)
\* the keys the calls of this specification address
CallKeys == {KEY, "tomo-pane-width"}

\* a call as its caller saw it; held is the text the key held when it began
Call(by, op, key, arg, out) ==
  [by |-> by, op |-> op, key |-> key, arg |-> arg, held |-> store[key],
   ret |-> out.ret, threw |-> out.threw, raised |-> out.raised]
\* a call that leaves a store behind returns nothing to its caller
Done(out) == [out EXCEPT !.ret = Undefined]
StoreAfter(out) == IF out.raised THEN store ELSE out.ret
NoCall ==
  [by |-> "none", op |-> "none", key |-> KEY, arg |-> Undefined, held |-> NoItem,
   ret |-> Undefined, threw |-> FALSE, raised |-> FALSE]

Bindings == {"b1", "b2"}
Unmounted == [mounted |-> FALSE, key |-> KEY, state |-> Undefined]

\* no page is open
Closed == "(closed)"
NoWriters == [k \in Keys |-> {}]
\* the useState values a page mounts with: OnboardingPage's currentStep, AuthPage's
\* showReset and resetSent
FirstStep == 1
LocalDefaults == [currentStep |-> FirstStep, showReset |-> FALSE, resetSent |-> FALSE]
NoPage ==
  /\ route = Closed /\ pending = FALSE /\ writers = NoWriters
  /\ local = LocalDefaults /\ tasks = {}

Environment ==
  /\ hasWindow \in BOOLEAN
  /\ storageDenied \in (IF hasWindow THEN BOOLEAN ELSE {FALSE})

\* the store a page load finds: items under the keys ks only, and none where
\* the environment gives the program no storage
StoreFinds(ks, texts) ==
  \E held \in [ks -> texts] :
    store = [k \in Keys |->
               IF hasWindow /\ ~storageDenied /\ k \in ks THEN held[k] ELSE NoItem]

Init ==
  /\ Environment
  /\ StoreFinds(CallKeys, LegacyTexts)
  /\ hooks = [b \in Bindings |-> Unmounted]
  /\ lastOp = NoCall
  /\ NoPage

Read(key, fallback) ==
  /\ lastOp' = Call("caller", "readFromStorage", key, fallback,
                    readFromStorage(store, key, fallback))
  /\ UNCHANGED <<hasWindow, storageDenied, store, hooks, route, pending, writers, local, tasks>>

Write(key, value, quota) ==
  LET out == writeToStorage(store, key, value, quota)
  IN /\ store' = StoreAfter(out)
     /\ lastOp' = Call("caller", "writeToStorage", key, value, Done(out))
     /\ UNCHANGED <<hasWindow, storageDenied, hooks, route, pending, writers, local, tasks>>

GetSession ==
  /\ lastOp' = Call("caller", "getSession", KEY, Null, getSession(store))
  /\ UNCHANGED <<hasWindow, storageDenied, store, hooks, route, pending, writers, local, tasks>>

SetSession(session, quota) ==
  LET out == setSession(store, session, quota)
  IN /\ store' = StoreAfter(out)
     /\ lastOp' = Call("caller", "setSession", KEY, session, Done(out))
     /\ UNCHANGED <<hasWindow, storageDenied, hooks, route, pending, writers, local, tasks>>

ClearSession ==
  LET out == clearSession(store)
  IN /\ store' = StoreAfter(out)
     /\ lastOp' = Call("caller", "clearSession", KEY, Undefined, Done(out))
     /\ UNCHANGED <<hasWindow, storageDenied, hooks, route, pending, writers, local, tasks>>

Next ==
  \/ \E key \in CallKeys, fallback \in Fallbacks : Read(key, fallback)
  \/ \E key \in CallKeys, value \in Values, quota \in BOOLEAN : Write(key, value, quota)
  \/ GetSession
  \/ \E session \in Sessions, quota \in BOOLEAN : SetSession(session, quota)
  \/ ClearSession

Spec == Init /\ [][Next]_vars

(***************************************************************************)
(* usePersistentState(key, initial): a component's binding of an in-memory *)
(* value to a key.                                                         *)
(***************************************************************************)
\* an updater function handed to the setter in place of a value
Updater(name) == <<"function", name>>
\* (prev) => [...prev, item] of FundProvider.addFund and AppShell.handleSend,
\* (prev) => (prev === id ? "all" : prev) of FundProvider.removeFund
Updaters == {Updater("append"), Updater("reset")}
ApplyUpdater(fn, prev) ==
  IF fn = Updater("append") THEN Arr(Append(Payload(prev), Num(0)))
  ELSE IF prev = Num(0) THEN Num(PaneWidthDefault) ELSE prev
\* the updaters above spread or compare prev: append is handed arrays only
Applies(fn, prev) ==
  fn = Updater("append") => TypeOf(prev) = "array" /\ Len(Payload(prev)) < MaxArrLen

\* a variant that never reads the store: useState(initial)
usePersistentStateInitialOnly(st, key, initial) == Returns(initial)

\* the value useState is seeded with
usePersistentState(st, key, initial) ==
  IF hasWindow THEN readFromStorage(st, key, initial) ELSE Returns(initial)

\* a variant that persists the value of the last render, not the new one
updateStale(st, key, prev, val, quota) ==
  LET next == IF TypeOf(val) = "function" THEN ApplyUpdater(val, prev) ELSE val
  IN [state |-> next, out |-> writeToStorage(st, key, prev, quota)]

\* the setter: setState((prev) => { next = ...; writeToStorage(key, next); return next })
\* yields the value the binding holds next and the outcome of the write
update(st, key, prev, val, quota) ==
  LET next == IF TypeOf(val) = "function" THEN ApplyUpdater(val, prev) ELSE val
  IN [state |-> next, out |-> writeToStorage(st, key, next, quota)]

HookKeys == {"tomo-onboarding", "tomo-pane-width"}
HookInitials == {Num(PaneWidthDefault), Arr(<<>>)}
HookValues == {Undefined, Num(0)}
HookLegacyTexts == {NoItem, <<"[", "0">>, NumberToText(PaneWidthDefault)}

InitHook ==
  /\ Environment
  /\ StoreFinds(HookKeys, HookLegacyTexts)
  /\ hooks = [b \in Bindings |-> Unmounted]
  /\ lastOp = NoCall
  /\ NoPage

\* a component that calls usePersistentState(key, initial) mounts
Mount(b, key, initial) ==
  /\ ~hooks[b].mounted
  /\ LET out == usePersistentState(store, key, initial)
     IN /\ hooks' = [hooks EXCEPT ![b] = [mounted |-> TRUE, key |-> key, state |-> out.ret]]
        /\ lastOp' = Call(b, "usePersistentState", key, initial, out)
  /\ UNCHANGED <<hasWindow, storageDenied, store, route, pending, writers, local, tasks>>

\* a callback of the component calls the setter; callbacks run in the browser only
Update(b, val, quota) ==
  /\ hooks[b].mounted
  /\ hasWindow
  /\ TypeOf(val) = "function" => Applies(val, hooks[b].state)
  /\ LET u == update(store, hooks[b].key, hooks[b].state, val, quota)
     IN /\ hooks' = IF u.out.raised THEN hooks ELSE [hooks EXCEPT ![b].state = u.state]
        /\ store' = StoreAfter(u.out)
        /\ lastOp' = Call(b, "update", hooks[b].key, u.state, Done(u.out))
  /\ UNCHANGED <<hasWindow, storageDenied, route, pending, writers, local, tasks>>

\* the component unmounts: its in-memory value is gone
Unmount(b) ==
  /\ hooks[b].mounted
  /\ hooks' = [hooks EXCEPT ![b] = Unmounted]
  /\ lastOp' = Call(b, "unmount", KEY, Undefined, Returns(Undefined))
  /\ UNCHANGED <<hasWindow, storageDenied, store, route, pending, writers, local, tasks>>

NextHook ==
  \/ \E b \in Bindings, key \in HookKeys, initial \in HookInitials : Mount(b, key, initial)
  \/ \E b \in Bindings, val \in HookValues \cup Updaters, quota \in BOOLEAN :
       Update(b, val, quota)
  \/ \E b \in Bindings : Unmount(b)

SpecHook == InitHook /\ [][NextHook]_vars

(***************************************************************************)
(* The mock integration calls of src/lib/integrations.ts: each awaits      *)
(* wait(ms), a promise a timer resolves, and then returns its result.      *)
(* Their callers are modelled after the application.                       *)
(***************************************************************************)
OkName == <<"o", "k">>
ListIdName == <<"l", "i", "s", "t", "I", "d">>
ApiTokenName == <<"a", "p", "i", "T", "o", "k", "e", "n">>
TokenLast4Name == <<"t", "o", "k", "e", "n", "L", "a", "s", "t", "4">>
FilenameName == <<"f", "i", "l", "e", "n", "a", "m", "e">>
UrlName == <<"u", "r", "l">>
AuthUrlName == <<"a", "u", "t", "h", "U", "r", "l">>

\* a UTF-16 surrogate that has no partner, as one character of a string
LoneSurrogate == "(lone surrogate)"
\* encodeURIComponent(s): a URIError for a lone surrogate; letters stay and the
\* quotation mark is escaped
RECURSIVE encodeURIComponent(_)
encodeURIComponent(s) ==
  IF s = <<>> THEN Text(<<>>)
  ELSE IF Head(s) = LoneSurrogate THEN Throws
  ELSE LET rest == encodeURIComponent(Tail(s))
       IN IF rest.k = "throw" THEN Throws
          ELSE Text((IF Head(s) = DQ THEN <<"%", "2", "2">> ELSE <<Head(s)>>) \o rest.s)

\* the length of the suffix connectAffinity keeps of the token
TokenSuffixLen == 4
\* s.slice(-n)
SliceLast(s, n) == IF Len(s) <= n THEN s ELSE SubSeq(s, Len(s) - n + 1, Len(s))

\* the payload of connectAffinity
AffinityPayload(listId, apiToken) ==
  Obj(<< <<ListIdName, Str(listId)>>, <<ApiTokenName, Str(apiToken)>> >>)

\* The results, less the message text and the constant prefix of the url.
\* A call that raises is a promise that rejects.
connectAffinity(payload) ==
  IF TypeOf(Property(payload, ApiTokenName)) # "string" THEN Raises
  ELSE Returns(Obj(<< <<OkName, Bool(TRUE)>>,
                      <<ListIdName, Property(payload, ListIdName)>>,
                      <<TokenLast4Name,
                        Str(SliceLast(Payload(Property(payload, ApiTokenName)),
                                      TokenSuffixLen))>> >>))
disconnectAffinity == Returns(Obj(<< <<OkName, Bool(TRUE)>> >>))
startGoogleAuth ==
  Returns(Obj(<< <<OkName, Bool(TRUE)>>, <<AuthUrlName, Str(<<"m", "o", "c", "k">>)>> >>))
createGoogleSheet(filename) ==
  IF encodeURIComponent(Payload(filename)).k = "throw" THEN Raises
  ELSE Returns(Obj(<< <<OkName, Bool(TRUE)>>, <<FilenameName, filename>>,
                      <<UrlName, Str(encodeURIComponent(Payload(filename)).s)>> >>))
disconnectGoogleSheet == Returns(Obj(<< <<OkName, Bool(TRUE)>> >>))

MockFunctions ==
  {"connectAffinity", "disconnectAffinity", "startGoogleAuth", "createGoogleSheet",
   "disconnectGoogleSheet"}
\* how the promise of fn(arg) settles
MockOutcome(fn, arg) ==
  CASE fn = "connectAffinity" -> connectAffinity(arg)
    [] fn = "disconnectAffinity" -> disconnectAffinity
    [] fn = "startGoogleAuth" -> startGoogleAuth
    [] fn = "createGoogleSheet" -> createGoogleSheet(arg)
    [] fn = "disconnectGoogleSheet" -> disconnectGoogleSheet

\* what callers hand to the mock functions
Tokens == {<<"a", "b", "c", "d">>, <<"s", "a", "b", "c", "d">>}
Filenames == {<<"a">>, <<"a", DQ>>, <<"a", LoneSurrogate>>}
MockArguments(fn) ==
  CASE fn = "connectAffinity" ->
         {AffinityPayload(listId, token) : listId \in ListIds, token \in Tokens}
    [] fn = "createGoogleSheet" -> {Str(name) : name \in Filenames}
    [] OTHER -> {Undefined}

\* a timer or a mock call that component by started and that has not completed
Task(kind, fn, arg, by) == [kind |-> kind, fn |-> fn, arg |-> arg, by |-> by]

(***************************************************************************)
(* The pages: which component binds or sets which key, in a browser with   *)
(* persistent storage that starts empty.                                   *)
(***************************************************************************)
\* "/home" stands for every page that renders AppShell behind useRequireSession
\* and binds no key of its own
Routes == {"/", "/auth", "/onboarding", "/home", "/settings", "/targets"}
ShellRoutes == {"/home", "/settings", "/targets"}
PageOf(r) ==
  CASE r = "/" -> "LandingRedirect"
    [] r = "/auth" -> "AuthPage"
    [] r = "/onboarding" -> "OnboardingPage"
    [] r = "/home" -> "HomePage"
    [] r = "/settings" -> "SettingsPage"
    [] r = "/targets" -> "TargetsPage"
\* RootLayout wraps every page in FundProvider
Components(r) ==
  {"FundProvider", PageOf(r)} \cup (IF r \in ShellRoutes THEN {"AppShell"} ELSE {})

\* the usePersistentState calls, by the name of the value they return
AppBindings ==
  {"state", "integrations", "lists", "middleWidth", "messages", "funds", "activeFundId"}
BindingOwner(b) ==
  CASE b = "state" -> "OnboardingPage"
    [] b = "integrations" -> "SettingsPage"
    [] b = "lists" -> "TargetsPage"
    [] b \in {"middleWidth", "messages"} -> "AppShell"
    [] b \in {"funds", "activeFundId"} -> "FundProvider"

\* a variant in which the targets page keeps its lists under the key of the pane width
BindingKeyShared(b) ==
  CASE b \in {"state", "integrations"} -> "tomo-onboarding"
    [] b \in {"lists", "middleWidth"} -> "tomo-pane-width"
    [] b = "messages" -> "tomo-chat"
    [] b = "funds" -> "tomo-funds"
    [] b = "activeFundId" -> "tomo-active-fund"

BindingKey(b) ==
  CASE b \in {"state", "integrations"} -> "tomo-onboarding"
    [] b = "lists" -> "tomo-target-lists"
    [] b = "middleWidth" -> "tomo-pane-width"
    [] b = "messages" -> "tomo-chat"
    [] b = "funds" -> "tomo-funds"
    [] b = "activeFundId" -> "tomo-active-fund"
BindingInitial(b) ==
  CASE b \in {"state", "integrations"} -> initialState
    [] b = "lists" -> Arr(<<>>)
    [] b = "middleWidth" -> Num(PaneWidthDefault)
    [] b = "messages" -> initialMessages
    [] b = "funds" -> defaultFunds
    [] b = "activeFundId" -> Str(AllFunds)

\* the bindings once route r is rendered over the store st: a component of kept
\* that is mounted already keeps its value, any other is seeded from st
Rendered(st, r, kept) ==
  [b \in AppBindings |->
     IF BindingOwner(b) \notin Components(r) THEN Unmounted
     ELSE IF BindingOwner(b) \in kept /\ hooks[b].mounted THEN hooks[b]
     ELSE [mounted |-> TRUE, key |-> BindingKey(b),
           state |-> usePersistentState(st, BindingKey(b), BindingInitial(b)).ret]]

\* router.replace(r), the store being st: the layout stays, the page is replaced
Replace(st, r) ==
  /\ route' = r
  /\ pending' = TRUE
  /\ hooks' = Rendered(st, r, {"FundProvider"})
  /\ local' = LocalDefaults
  /\ tasks' = {}
\* the outcome of the mount effects: a replace, or the page as it is
Settle(st, target) ==
  IF target = route
  THEN pending' = FALSE /\ UNCHANGED <<route, hooks, local, tasks>>
  ELSE Replace(st, target)

Wrote(key, component) == [writers EXCEPT ![key] = @ \cup {component}]
Truthy(val) == ~Falsy(val)
Idle(r) == route = r /\ ~pending
\* what ran last: a page load, a mount effect, a user-interaction callback, the
\* completion of a mock integration call or another timer; key and arg are the
\* key it addresses and what it was handed
Event(kind, op, key, arg) == Call(kind, op, key, arg, Returns(Undefined))
Stay == UNCHANGED <<local, tasks>>

InitApp ==
  /\ hasWindow = TRUE
  /\ storageDenied = FALSE
  /\ store = [k \in Keys |-> NoItem]
  /\ hooks = [b \in AppBindings |-> Unmounted]
  /\ lastOp = NoCall
  /\ NoPage

\* the browser loads the page of route r
Open(r) ==
  /\ route' = r
  /\ pending' = TRUE
  /\ hooks' = Rendered(store, r, {})
  /\ local' = LocalDefaults
  /\ tasks' = {}
  /\ lastOp' = Event("load", "open", KEY, Undefined)
  /\ UNCHANGED <<hasWindow, storageDenied, store, writers>>

\* a variant that lets every session stay
RequireSessionTargetAnySession(session, r) == IF Falsy(session) THEN "/auth" ELSE r

\* where a session sends the visitor of route r: the effect of useRequireSession,
\* and with r = "/home" that of LandingRedirect
RequireSessionTarget(session, r) ==
  IF Falsy(session) THEN "/auth"
  ELSE IF Falsy(Property(session, OnboardingCompleteName)) THEN "/onboarding"
  ELSE r

\* a variant that sends every session to /home
AuthTargetHome(session, r) == IF Truthy(session) THEN "/home" ELSE r

\* the route the mount effect of AuthPage leaves the visitor on
AuthTarget(session, r) ==
  IF Truthy(session) /\ Falsy(Property(session, OnboardingCompleteName)) THEN "/onboarding"
  ELSE IF Truthy(Property(session, OnboardingCompleteName)) THEN "/home"
  ELSE r
\* a variant that sends a session that is not complete back to /auth
OnboardingTargetAuth(session, r) ==
  IF Falsy(session) THEN "/auth"
  ELSE IF Truthy(Property(session, OnboardingCompleteName)) THEN "/home"
  ELSE "/auth"

\* and that of OnboardingPage's first effect
OnboardingTarget(session, r) ==
  IF Falsy(session) THEN "/auth"
  ELSE IF Truthy(Property(session, OnboardingCompleteName)) THEN "/home"
  ELSE r

\* In the actions below a value that is computed once and used many times is
\* bound by \E over the set that holds it alone.

LandingRedirectEffect ==
  /\ route = "/" /\ pending
  /\ \E session \in {readFromStorage(store, KEY, Null).ret} :
       \E target \in {RequireSessionTarget(session, "/home")} : Replace(store, target)
  /\ lastOp' = Event("effect", "LandingRedirect", KEY, Undefined)
  /\ UNCHANGED <<hasWindow, storageDenied, store, writers>>

RequireSessionEffect ==
  /\ route \in ShellRoutes /\ pending
  /\ \E session \in {readFromStorage(store, KEY, Null).ret} :
       \E target \in {RequireSessionTarget(session, route)} : Settle(store, target)
  /\ lastOp' = Event("effect", "useRequireSession", KEY, Undefined)
  /\ UNCHANGED <<hasWindow, storageDenied, store, writers>>

AuthMountEffect ==
  /\ route = "/auth" /\ pending
  /\ \E session \in {getSession(store).ret} :
       \E target \in {AuthTarget(session, route)} : Settle(store, target)
  /\ lastOp' = Event("effect", "AuthPage", KEY, Undefined)
  /\ UNCHANGED <<hasWindow, storageDenied, store, writers>>

\* OnboardingPage's two mount effects, in the order of the source: the first
\* sends a visitor without a session to /auth and one who has completed to /home,
\* the second marks the session of a completed onboarding and goes to /home
OnboardingMountEffects ==
  /\ route = "/onboarding" /\ pending
  /\ \E session \in {getSession(store).ret} :
       IF Truthy(Property(hooks["state"].state, CompletedName)) /\ Truthy(session)
       THEN \E marked \in {StoreAfter(setSession(store,
                             Spread(session, OnboardingCompleteName, Bool(TRUE)), FALSE))} :
              /\ store' = marked
              /\ writers' = Wrote(KEY, "OnboardingPage")
              /\ Replace(marked, "/home")
       ELSE /\ \E target \in {OnboardingTarget(session, route)} : Settle(store, target)
            /\ UNCHANGED <<store, writers>>
  /\ lastOp' = Event("effect", "OnboardingPage", KEY, Undefined)
  /\ UNCHANGED <<hasWindow, storageDenied>>

\* a variant that carries onboardingComplete over from any stored session
ContinuedSessionAnyEmail(existing, email, plan) ==
  Spread(SessionState(email, plan, FALSE), OnboardingCompleteName,
         IF Truthy(existing) THEN Property(existing, OnboardingCompleteName) ELSE Bool(FALSE))

\* the session handleContinue stores: onboardingComplete is that of the stored
\* session of the same email, and false without one
ContinuedSession(existing, email, plan) ==
  Spread(SessionState(email, plan, FALSE), OnboardingCompleteName,
         IF Property(existing, EmailName) = Str(email)
         THEN Property(existing, OnboardingCompleteName) ELSE Bool(FALSE))

\* what the email field of the auth page holds
FormEmails == Emails \cup {<<>>}

\* AuthPage.handleContinue with the form's email and the selected plan; with an
\* empty email it returns at once
HandleContinue(email, plan) ==
  /\ Idle("/auth")
  /\ IF email = <<>>
     THEN UNCHANGED <<store, hooks, route, pending, writers, local, tasks>>
     ELSE \E existing \in {readFromStorage(store, KEY, Null).ret} :
            \E session \in {ContinuedSession(existing, email, plan)} :
              \E stored \in {StoreAfter(setSession(store, session, FALSE))} :
                /\ store' = stored
                /\ writers' = Wrote(KEY, "AuthPage")
                /\ Replace(stored, IF Truthy(Property(session, OnboardingCompleteName))
                                   THEN "/home" ELSE "/onboarding")
  /\ lastOp' = Event("user", "handleContinue", KEY, Arr(<<Str(email), Str(plan)>>))
  /\ UNCHANGED <<hasWindow, storageDenied>>

\* OnboardingPage: totalSteps and what each step shows, by its heading: calendar,
\* contacts, email (recommended), messaging channels, how TOMO notifies, the
\* optional sync to Affinity or Sheets, and "Your workspace is ready"
TotalSteps == 7
StepTitles ==
  <<"calendar", "contacts", "email", "messaging", "notifications", "integrations",
    "ready">>
Shown == StepTitles[local.currentStep]
\* OnboardingPage.goNext and goBack, as updaters of currentStep
goNextSkipping(prev) == IF prev + 2 < TotalSteps THEN prev + 2 ELSE TotalSteps
goNext(prev) == IF prev + 1 < TotalSteps THEN prev + 1 ELSE TotalSteps
goBack(prev) == IF prev - 1 > FirstStep THEN prev - 1 ELSE FirstStep

\* the Next button of the header, disabled on the last step, and the buttons of
\* the steps that skip ahead
GoNext ==
  /\ Idle("/onboarding")
  /\ local.currentStep # TotalSteps
  /\ local' = [local EXCEPT !.currentStep = goNext(@)]
  /\ lastOp' = Event("user", "goNext", "tomo-onboarding", Num(local.currentStep))
  /\ UNCHANGED <<hasWindow, storageDenied, store, hooks, route, pending, writers, tasks>>

\* the Back button of the header, disabled on the first step
GoBack ==
  /\ Idle("/onboarding")
  /\ local.currentStep # FirstStep
  /\ local' = [local EXCEPT !.currentStep = goBack(@)]
  /\ lastOp' = Event("user", "goBack", "tomo-onboarding", Num(local.currentStep))
  /\ UNCHANGED <<hasWindow, storageDenied, store, hooks, route, pending, writers, tasks>>

\* a step marker of the header: setCurrentStep(step)
GoToStep(step) ==
  /\ Idle("/onboarding")
  /\ local' = [local EXCEPT !.currentStep = step]
  /\ lastOp' = Event("user", "setCurrentStep", "tomo-onboarding", Num(local.currentStep))
  /\ UNCHANGED <<hasWindow, storageDenied, store, hooks, route, pending, writers, tasks>>

\* the setter of binding b is handed the value val
SetBinding(b, val) ==
  \E next \in {val} :
    \E u \in {update(store, hooks[b].key, hooks[b].state, next, FALSE)} :
      /\ store' = StoreAfter(u.out)
      /\ hooks' = [hooks EXCEPT ![b].state = u.state]
      /\ writers' = Wrote(hooks[b].key, BindingOwner(b))
      /\ UNCHANGED <<hasWindow, storageDenied, route, pending>>

\* OnboardingPage.markConnected(key) on the steps calendar, contacts and email:
\* it sets state[key] and calls goNext. Of the three keys the model keeps
\* calendarConnected.
MarkConnected ==
  /\ Idle("/onboarding")
  /\ Shown \in {"calendar", "contacts", "email"}
  /\ SetBinding("state", IF Shown = "calendar"
                         THEN Spread(hooks["state"].state, CalendarConnectedName, Bool(TRUE))
                         ELSE hooks["state"].state)
  /\ local' = [local EXCEPT !.currentStep = goNext(@)]
  /\ lastOp' = Event("user", "markConnected", "tomo-onboarding", Num(local.currentStep))
  /\ UNCHANGED tasks

\* OnboardingPage.completeOnboarding, the button of the last step
CompleteOnboarding ==
  /\ Idle("/onboarding")
  /\ Shown = "ready"
  /\ \E session \in {getSession(store).ret} :
       \E marked \in {IF Truthy(session)
                      THEN StoreAfter(setSession(store,
                             Spread(session, OnboardingCompleteName, Bool(TRUE)), FALSE))
                      ELSE store} :
         \E u \in {update(marked, "tomo-onboarding", hooks["state"].state,
                          Spread(hooks["state"].state, CompletedName, Bool(TRUE)), FALSE)} :
           /\ store' = u.out.ret
           /\ writers' = [k \in Keys |->
                            IF k = "tomo-onboarding" \/ (k = KEY /\ Truthy(session))
                            THEN writers[k] \cup {"OnboardingPage"} ELSE writers[k]]
           /\ Replace(u.out.ret, "/home")
  /\ lastOp' = Event("user", "completeOnboarding", KEY, Undefined)
  /\ UNCHANGED <<hasWindow, storageDenied>>

\* the Affinity form of the settings page and of the integrations step
AffinityForm ==
  \/ Idle("/settings")
  \/ Idle("/onboarding") /\ Shown = "integrations"
\* the binding the form's page keeps the connection in
AffinityBinding == IF route = "/settings" THEN "integrations" ELSE "state"
\* affinitySaving (savingAffinity on the settings page): a call is in flight
affinitySaving == \E task \in tasks : task.fn = "connectAffinity"

\* the Connect button of the form: disabled while saving or while a field is
\* empty, it calls connectAffinity with the two fields
ConnectAffinity(listId, apiToken) ==
  /\ AffinityForm
  /\ ~affinitySaving
  /\ listId # <<>> /\ apiToken # <<>>
  /\ tasks' = tasks \cup {Task("mock", "connectAffinity",
                                AffinityPayload(listId, apiToken), route)}
  /\ lastOp' = Event("user", "connectAffinity", "tomo-onboarding", Str(apiToken))
  /\ UNCHANGED <<hasWindow, storageDenied, store, hooks, route, pending, writers, local>>

\* what the handler stores of the result res: the list id and the suffix
Connection(prev, res) ==
  Spread(Spread(Spread(prev, AffinityConnectedName, Bool(TRUE)),
                AffinityListIdName, Property(res, ListIdName)),
         AffinityTokenLast4Name, Property(res, TokenLast4Name))
\* connectAffinity has resolved: the handler goes on after its await
AffinityConnected(task) ==
  /\ task \in tasks
  /\ task.fn = "connectAffinity"
  /\ \E out \in {connectAffinity(task.arg)} :
       /\ IF ~out.threw /\ Truthy(Property(out.ret, OkName))
          THEN SetBinding(AffinityBinding, Connection(hooks[AffinityBinding].state, out.ret))
          ELSE UNCHANGED <<hasWindow, storageDenied, store, hooks, route, pending, writers>>
       /\ lastOp' = Call("mock", "connectAffinity", "tomo-onboarding", task.arg, out)
  /\ tasks' = tasks \ {task}
  /\ UNCHANGED local

\* SettingsPage: the Disconnect button, rendered while integrations.affinityConnected
Disconnect ==
  /\ Idle("/settings")
  /\ Truthy(Property(hooks["integrations"].state, AffinityConnectedName))
  /\ SetBinding("integrations",
       Spread(Spread(Spread(hooks["integrations"].state, AffinityConnectedName, Bool(FALSE)),
                     AffinityListIdName, Undefined),
              AffinityTokenLast4Name, Undefined))
  /\ lastOp' = Event("user", "disconnect", "tomo-onboarding", Undefined)
  /\ Stay

\* SettingsPage: the Sign out button
SignOut ==
  /\ Idle("/settings")
  /\ \E cleared \in {StoreAfter(clearSession(store))} :
       /\ store' = cleared
       /\ writers' = Wrote(KEY, "SettingsPage")
       /\ Replace(cleared, "/auth")
  /\ lastOp' = Event("user", "signOut", KEY, Undefined)
  /\ UNCHANGED <<hasWindow, storageDenied>>

\* what the name field of the targets page is filled with
ListNames == {<<>>, <<"a">>}

\* TargetsPage.handleCreateList with the form's name; an empty name returns at once
HandleCreateList(name) ==
  /\ Idle("/targets")
  /\ name # <<>>
  /\ Len(Payload(hooks["lists"].state)) < MaxArrLen
  /\ SetBinding("lists", Arr(<<Str(name)>> \o Payload(hooks["lists"].state)))
  /\ lastOp' = Event("user", "handleCreateList", "tomo-target-lists", Str(name))
  /\ Stay

\* AppShell.handleMove while the divider is dragged: the width, clamped
HandleMove(width) ==
  /\ route \in ShellRoutes /\ ~pending
  /\ SetBinding("middleWidth", Num(width))
  /\ lastOp' = Event("user", "handleMove", "tomo-pane-width", Num(width))
  /\ Stay

\* AppShell's fund selector: onChange calls FundProvider's setActiveFundId
SetActiveFundId(id) ==
  /\ route \in ShellRoutes /\ ~pending
  /\ SetBinding("activeFundId", Str(id))
  /\ lastOp' = Event("user", "setActiveFundId", "tomo-active-fund", Str(id))
  /\ Stay

\* AuthPage: "Forgot password?" opens the reset dialog, Cancel and the cross
\* close it
SetShowReset(shown) ==
  /\ Idle("/auth")
  /\ local.showReset # shown
  /\ local' = [local EXCEPT !.showReset = shown]
  /\ lastOp' = Event("user", "setShowReset", KEY, Bool(shown))
  /\ UNCHANGED <<hasWindow, storageDenied, store, hooks, route, pending, writers, tasks>>

\* the free number a new timer of handler fn gets
FreeTimer(fn) ==
  {n \in 1..MaxCalls :
     /\ Task("timer", fn, Num(n), route) \notin tasks
     /\ \A m \in 1..(n - 1) : Task("timer", fn, Num(m), route) \in tasks}

\* AuthPage.handleReset, the "Send reset link" button of the dialog: it sets
\* resetSent and starts the timer that hides the dialog
HandleReset ==
  /\ Idle("/auth")
  /\ local.showReset
  /\ \E n \in FreeTimer("handleReset") :
       tasks' = tasks \cup {Task("timer", "handleReset", Num(n), route)}
  /\ local' = [local EXCEPT !.resetSent = TRUE]
  /\ lastOp' = Event("user", "handleReset", KEY, Undefined)
  /\ UNCHANGED <<hasWindow, storageDenied, store, hooks, route, pending, writers>>

\* the timer of handleReset expires: setShowReset(false)
ResetTimerClearsSent(task) ==
  /\ task \in tasks
  /\ task.fn = "handleReset"
  /\ local' = [local EXCEPT !.showReset = FALSE, !.resetSent = FALSE]
  /\ tasks' = tasks \ {task}
  /\ lastOp' = Event("timer", "handleReset", KEY, task.arg)
  /\ UNCHANGED <<hasWindow, storageDenied, store, hooks, route, pending, writers>>
ResetTimer(task) ==
  /\ task \in tasks
  /\ task.fn = "handleReset"
  /\ local' = [local EXCEPT !.showReset = FALSE]
  /\ tasks' = tasks \ {task}
  /\ lastOp' = Event("timer", "handleReset", KEY, task.arg)
  /\ UNCHANGED <<hasWindow, storageDenied, store, hooks, route, pending, writers>>

\* the messages of sender from in a chat
Sent(chat, from) ==
  Cardinality({i \in 1..Len(Payload(chat)) : Payload(chat)[i] = TomoMessage(from)})

\* AppShell.handleSend: it appends the message of the user and starts the timer
\* of the reply
HandleSend ==
  /\ route \in ShellRoutes /\ ~pending
  /\ Sent(hooks["messages"].state, User) < MaxCalls
  /\ SetBinding("messages",
                Arr(Payload(hooks["messages"].state) \o <<TomoMessage(User)>>))
  /\ \E n \in FreeTimer("handleSend") :
       tasks' = tasks \cup {Task("timer", "handleSend", Num(n), route)}
  /\ lastOp' = Event("user", "handleSend", "tomo-chat", Undefined)
  /\ UNCHANGED local

\* a variant whose timer appends the reply twice
ReplyTimerTwice(task) ==
  /\ task \in tasks
  /\ task.fn = "handleSend"
  /\ SetBinding("messages",
                Arr(Payload(hooks["messages"].state)
                      \o <<TomoMessage(Tomo), TomoMessage(Tomo)>>))
  /\ tasks' = tasks \ {task}
  /\ lastOp' = Event("timer", "handleSend", "tomo-chat", task.arg)
  /\ UNCHANGED local

\* the timer of handleSend expires: the reply of tomo is appended
ReplyTimer(task) ==
  /\ task \in tasks
  /\ task.fn = "handleSend"
  /\ SetBinding("messages",
                Arr(Payload(hooks["messages"].state) \o <<TomoMessage(Tomo)>>))
  /\ tasks' = tasks \ {task}
  /\ lastOp' = Event("timer", "handleSend", "tomo-chat", task.arg)
  /\ UNCHANGED local

\* page loads, mount effects, sign-in with one of plans, onboarding, sign-out
PagesNext(plans) ==
  \/ \E r \in Routes : Open(r)
  \/ LandingRedirectEffect
  \/ RequireSessionEffect
  \/ AuthMountEffect
  \/ OnboardingMountEffects
  \/ \E email \in FormEmails, plan \in plans : HandleContinue(email, plan)
  \/ GoNext
  \/ GoBack
  \/ \E step \in FirstStep..TotalSteps : GoToStep(step)
  \/ MarkConnected
  \/ CompleteOnboarding
  \/ SignOut

NextAffinity ==
  \/ \E listId \in ListIds, apiToken \in Tokens : ConnectAffinity(listId, apiToken)
  \/ \E task \in tasks : AffinityConnected(task)
  \/ Disconnect

\* the pages and the handlers of the bindings, every sign-in with the first plan
NextApp ==
  \/ PagesNext({Individual})
  \/ NextAffinity
  \/ \E name \in ListNames : HandleCreateList(name)
  \/ \E width \in {MinPaneWidth, MaxPaneWidth} : HandleMove(width)
  \/ \E id \in FundChoices : SetActiveFundId(id)

SpecApp == InitApp /\ [][NextApp]_vars

\* localStorage is one for every tab of the browser: while this tab's page is
\* idle, the app in another tab stores a session or removes it. No component
\* listens to storage events, so the bindings of this tab keep their values.
OtherTab(item) ==
  /\ route # Closed /\ ~pending
  /\ store[KEY] # item
  /\ store' = [store EXCEPT ![KEY] = item]
  /\ lastOp' = Event("tab", "setItem", KEY, Undefined)
  /\ UNCHANGED <<hasWindow, storageDenied, hooks, route, pending, writers, local, tasks>>

\* the pages alone, with either plan and a second tab
NextPages ==
  \/ PagesNext(Plans)
  \/ \E item \in {NoItem} \cup {JSONstringify(session).s : session \in FormSessions} :
       OtherTab(item)
SpecPages == InitApp /\ [][NextPages]_vars

\* the pages with what runs later than the callback that started it: the mock
\* call of the Affinity form and the timers of handleReset and handleSend
NextAsync ==
  \/ PagesNext({Individual})
  \/ NextAffinity
  \/ \E shown \in BOOLEAN : SetShowReset(shown)
  \/ HandleReset
  \/ \E task \in tasks : ResetTimer(task)
  \/ HandleSend
  \/ \E task \in tasks : ReplyTimer(task)

SpecAsync == InitApp /\ [][NextAsync]_vars

\* the pages and the chat. A timer of the browser expires once its delay has
\* passed, as long as the page that started it is loaded: the reply timers are
\* weakly fair.
ReplyTimers == \E task \in tasks : ReplyTimer(task)
NextChat ==
  \/ PagesNext({Individual})
  \/ HandleSend
  \/ ReplyTimers

SpecChat == InitApp /\ [][NextChat]_vars /\ WF_vars(ReplyTimers)

(***************************************************************************)
(* The redirects alone: the browser opens any route over any persisted     *)
(* session and onboarding state, and the mount effects run. React runs the *)
(* effects of a mounted page once it has committed, hence the fairness.    *)
(***************************************************************************)
SessionItems == {NoItem} \cup {JSONstringify(session).s : session \in FormSessions}
OnboardingItems == {NoItem} \cup {JSONstringify(state).s : state \in OnboardingStates}

InitNav ==
  /\ hasWindow = TRUE
  /\ storageDenied = FALSE
  /\ \E session \in SessionItems, onboarding \in OnboardingItems :
       store = [k \in Keys |-> IF k = KEY THEN session
                               ELSE IF k = "tomo-onboarding" THEN onboarding ELSE NoItem]
  /\ route \in Routes
  /\ pending = TRUE
  /\ hooks = [b \in AppBindings |->
                IF BindingOwner(b) \notin Components(route) THEN Unmounted
                ELSE [mounted |-> TRUE, key |-> BindingKey(b),
                      state |-> usePersistentState(store, BindingKey(b),
                                                   BindingInitial(b)).ret]]
  /\ lastOp = NoCall
  /\ writers = NoWriters
  /\ local = LocalDefaults
  /\ tasks = {}

NextNav ==
  \/ LandingRedirectEffect
  \/ RequireSessionEffect
  \/ AuthMountEffect
  \/ OnboardingMountEffects

SpecNav == InitNav /\ [][NextNav]_vars /\ WF_vars(NextNav)

(***************************************************************************)
(* The mock functions alone: a caller calls one, the delay passes, the     *)
(* promise settles.                                                        *)
(***************************************************************************)
InitMock == InitApp

\* a caller calls fn(arg): the call awaits its delay
CallMock(fn, arg) ==
  /\ Cardinality(tasks) < MaxCalls
  /\ tasks' = tasks \cup {Task("mock", fn, arg, "caller")}
  /\ lastOp' = Event("user", fn, KEY, arg)
  /\ UNCHANGED <<hasWindow, storageDenied, store, hooks, route, pending, writers, local>>

\* the delay of a call is over: its promise settles
SettleMock(task) ==
  /\ task \in tasks
  /\ task.kind = "mock"
  /\ tasks' = tasks \ {task}
  /\ lastOp' = Call("mock", task.fn, KEY, task.arg, MockOutcome(task.fn, task.arg))
  /\ UNCHANGED <<hasWindow, storageDenied, store, hooks, route, pending, writers, local>>

NextMock ==
  \/ \E fn \in MockFunctions : \E arg \in MockArguments(fn) : CallMock(fn, arg)
  \/ \E task \in tasks : SettleMock(task)

SpecMock == InitMock /\ [][NextMock]_vars

(***************************************************************************)
(* Properties.                                                             *)
(***************************************************************************)
\* value survives JSON round-tripping: JSON.parse(JSON.stringify(value)) is
\* deeply equal to value
Survives(value) ==
  LET json == Stringified(value)
  IN json.k = "text" /\ Parse(json.s).ok /\ Parse(json.s).val = value

\* every read of key, whatever the fallback, returns value
ReadsBack(key, value) ==
  \A fallback \in Fallbacks : readFromStorage(store, key, fallback) = Returns(value)

\* the environment gives the program persistent storage
HasStorage == hasWindow /\ ~storageDenied

EmptyStore == [k \in Keys |-> NoItem]

\* C1 as stated: with persistent storage, a read right after writeToStorage(k, v)
\* returns v for every v that survives JSON round-tripping, whatever the fallback.
C1_ReadAfterWrite ==
  (lastOp.op = "writeToStorage" /\ HasStorage /\ Survives(lastOp.arg))
    => ReadsBack(lastOp.key, lastOp.arg)

\* C1 amended: with persistent storage, a read right after a writeToStorage(k, v)
\* that the underlying storage accepted returns v for every v that survives JSON
\* round-tripping, whatever the fallback.
C1_ReadAfterAcceptedWrite ==
  (lastOp.op = "writeToStorage" /\ HasStorage /\ Survives(lastOp.arg) /\ ~lastOp.threw)
    => ReadsBack(lastOp.key, lastOp.arg)

\* an accepted write of a falsy value over an item, read back with other fallbacks
C1_Witness ==
  /\ lastOp.op = "writeToStorage" /\ HasStorage /\ ~lastOp.threw
  /\ lastOp.arg = Null /\ lastOp.held = NumberToText(PaneWidthDefault)
  /\ ReadsBack(lastOp.key, Null)

\* C2: readFromStorage(k, f) for a key that holds no item returns exactly f.
C2_AbsentKeyReturnsFallback ==
  (lastOp.op = "readFromStorage" /\ lastOp.held = NoItem)
    => (lastOp.ret = lastOp.arg /\ ~lastOp.raised)

\* a read of an absent key, in a browser with storage, with a fallback that is not null
C2_Witness ==
  /\ lastOp.op = "readFromStorage" /\ HasStorage /\ lastOp.held = NoItem
  /\ lastOp.arg = Num(PaneWidthDefault) /\ lastOp.ret = Num(PaneWidthDefault)

\* C3: writeToStorage never raises to its caller, whatever the key and the value,
\* also when the storage or the serialization throws; the failed write leaves the
\* key as it was.
C3_WriteNeverRaises ==
  lastOp.op = "writeToStorage"
    => (~lastOp.raised /\ (lastOp.threw => store[lastOp.key] = lastOp.held))

\* setItem threw on a value that serializes, and the caller saw nothing
C3_Witness ==
  /\ lastOp.op = "writeToStorage" /\ HasStorage /\ lastOp.threw /\ ~lastOp.raised
  /\ lastOp.arg = Num(PaneWidthDefault)
  /\ store[lastOp.key] = lastOp.held

\* C4: readFromStorage never raises; when the stored text cannot be deserialized,
\* or the storage throws on access, it returns the fallback.
C4_ReadNeverRaises ==
  lastOp.op = "readFromStorage"
    => /\ ~lastOp.raised
       /\ (storageDenied \/ (lastOp.held # NoItem /\ ~Parse(lastOp.held).ok))
            => lastOp.ret = lastOp.arg

\* a read of text that is not JSON: the parse threw and the fallback came back
C4_Witness ==
  /\ lastOp.op = "readFromStorage" /\ lastOp.held = <<"[", "0">>
  /\ lastOp.threw /\ ~lastOp.raised
  /\ lastOp.arg = Num(PaneWidthDefault) /\ lastOp.ret = lastOp.arg

\* C5: without a window (server-side rendering) every readFromStorage returns its
\* fallback, every writeToStorage completes without error, and no call stores
\* anything, whatever the sequence of reads and writes.
C5_NoStorageEnvironment ==
  ~hasWindow
    => /\ store = EmptyStore
       /\ lastOp.op \in {"readFromStorage", "writeToStorage"}
            => (~lastOp.raised /\ ~lastOp.threw)
       /\ lastOp.op = "readFromStorage" => lastOp.ret = lastOp.arg

\* a write of a storable value on the server
C5_Witness ==
  /\ ~hasWindow /\ lastOp.op = "writeToStorage"
  /\ lastOp.arg = Num(PaneWidthDefault) /\ store = EmptyStore

\* the binding that made the last call holds the value stored under its key
StoredEqualsMemory ==
  LET text == store[lastOp.key]
  IN /\ text # NoItem
     /\ Parse(text).ok
     /\ Parse(text).val = hooks[lastOp.by].state

\* C6 as stated: after every update through a binding's setter, the in-memory value
\* and the value stored under the binding's key are equal (checked for the new
\* values that survive JSON round-tripping, the ones a stored value can equal).
C6_UpdateKeepsStoreEqual ==
  (lastOp.op = "update" /\ Survives(hooks[lastOp.by].state)) => StoredEqualsMemory

\* C6 amended: after every update through a binding's setter that the underlying
\* storage accepted, with a new value that survives JSON round-tripping, the
\* in-memory value and the value stored under the binding's key are equal.
C6_AcceptedUpdateKeepsStoreEqual ==
  (lastOp.op = "update" /\ ~lastOp.threw /\ Survives(hooks[lastOp.by].state))
    => StoredEqualsMemory

\* an updater function applied to the in-memory value, persisted
C6_Witness ==
  /\ lastOp.op = "update" /\ ~lastOp.threw
  /\ hooks[lastOp.by].state = Arr(<<Num(0)>>)
  /\ store[lastOp.key] = <<"[", "0", "]">>

\* C7: on initialization a binding for key k with initial value i holds the value
\* stored under k when one exists and deserializes, and i otherwise.
C7_SeedsFromStorage ==
  lastOp.op = "usePersistentState"
    => /\ hooks[lastOp.by].mounted
       /\ hooks[lastOp.by].key = lastOp.key
       /\ hooks[lastOp.by].state =
            IF lastOp.held # NoItem /\ Parse(lastOp.held).ok
            THEN Parse(lastOp.held).val ELSE lastOp.arg

\* a binding seeded with a stored value that differs from its initial value
C7_Witness ==
  /\ lastOp.op = "usePersistentState"
  /\ lastOp.arg = Arr(<<>>) /\ lastOp.held = NumberToText(PaneWidthDefault)
  /\ hooks[lastOp.by].state = Num(PaneWidthDefault)

\* the key held the item of an earlier write when the last call began
OverEarlierWrite == lastOp.held \notin HookLegacyTexts

\* the keys more than one component sets or removes
SharedKeys == {KEY, "tomo-onboarding"}
\* the mounted bindings of key
BoundTo(key) == {b \in DOMAIN hooks : hooks[b].mounted /\ hooks[b].key = key}

C9_SecondWriteWins ==
  (lastOp.op = "update" /\ OverEarlierWrite /\ Survives(lastOp.arg))
    => ReadsBack(lastOp.key, lastOp.arg)

\* C9 amended: a write of v2 to a key that holds an earlier write's item, when the
\* underlying storage accepts it, replaces the item by the text of v2 alone, and v2
\* is read back when it survives JSON round-tripping; whoever the two callers are.
C9_AcceptedSecondWriteWins ==
  (lastOp.op = "update" /\ OverEarlierWrite /\ ~lastOp.threw)
    => /\ store[lastOp.key] = ItemText(lastOp.arg)
       /\ Survives(lastOp.arg) => ReadsBack(lastOp.key, lastOp.arg)

\* two bindings of one key: b2 holds the value whose item b1's update replaced
C9_Witness ==
  /\ lastOp.op = "update" /\ lastOp.by = "b1" /\ ~lastOp.threw
  /\ hooks["b2"].mounted /\ hooks["b2"].key = lastOp.key
  /\ hooks["b2"].state = Num(0) /\ lastOp.held = <<"0">>
  /\ lastOp.arg = Arr(<<Num(0)>>)
  /\ store[lastOp.key] = <<"[", "0", "]">>

\* C10: no failure of the storage leaves a session operation: getSession returns
\* null when the storage throws, setSession and clearSession return normally.
C10_SessionOpsNeverRaise ==
  lastOp.op \in {"getSession", "setSession", "clearSession"}
    => /\ ~lastOp.raised
       /\ (lastOp.op = "getSession" /\ lastOp.threw) => lastOp.ret = Null

\* C11 as stated: every call of a mock integration function settles by
\* resolving, never by rejecting, with an object whose ok is true.
C11_MocksResolveOk ==
  lastOp.by = "mock"
    => ~lastOp.raised /\ Property(lastOp.ret, OkName) = Bool(TRUE)

\* a step that changes persisted state or state in memory: the store, the value
\* of a binding, a useState value of the page
ChangesState == <<store, hooks, local>>' # <<store, hooks, local>>

\* C12 as stated: every change of state happens while a page loads and mounts,
\* in a user-interaction callback or when a mock integration call completes; no
\* other timer or background task changes state.
C12_NoOtherTimerChangesState ==
  [][ChangesState => lastOp'.by \in {"load", "effect", "user", "mock"}]_vars

\* C12 amended: besides those, state changes when one of two timers expires, and
\* in no other way: the timer handleSend started changes the chat and its key
\* alone, the timer handleReset started hides the reset dialog and no more.
C12_TwoTimersChangeState ==
  [][ChangesState =>
       \/ lastOp'.by \in {"load", "effect", "user", "mock"}
       \/ /\ lastOp'.by = "timer" /\ lastOp'.op = "handleSend"
          /\ Task("timer", "handleSend", lastOp'.arg, route) \in tasks \ tasks'
          /\ local' = local
          /\ \A key \in Keys \ {"tomo-chat"} : store'[key] = store[key]
          /\ \A b \in AppBindings \ {"messages"} : hooks'[b] = hooks[b]
       \/ /\ lastOp'.by = "timer" /\ lastOp'.op = "handleReset"
          /\ Task("timer", "handleReset", lastOp'.arg, route) \in tasks \ tasks'
          /\ store' = store /\ hooks' = hooks
          /\ local' = [local EXCEPT !.showReset = FALSE]]_vars
\* the reply timer has appended tomo's reply to the chat and stored it
C12_Witness ==
  /\ lastOp.by = "timer" /\ lastOp.op = "handleSend"
  /\ Sent(hooks["messages"].state, Tomo) > Sent(initialMessages, Tomo)
  /\ store["tomo-chat"] = JSONstringify(hooks["messages"].state).s

\* the text holds the characters of s in a row
Holds(text, s) ==
  \E i \in 1..(Len(text) - Len(s) + 1) : SubSeq(text, i, i + Len(s) - 1) = s

\* C13 as stated: once a call of connectAffinity has completed and its handler
\* has stored the connection, no key of the store holds the API token the call
\* was handed.
C13_TokenNeverPersisted ==
  lastOp.by = "mock" /\ lastOp.op = "connectAffinity"
    => \A key \in Keys : ~Holds(store[key], Payload(Property(lastOp.arg, ApiTokenName)))

\* the effect, handler or callback a step has run
Ran(op) == lastOp'.op = op
\* the stored session, null without one, and whether it is marked complete
StoredSession == getSession(store).ret
Complete(session) == Property(session, OnboardingCompleteName) = Bool(TRUE)
Redirected(r) == route' = r /\ pending'
NotRedirected == route' = route /\ ~pending'

\* C14: the effect of useRequireSession on a guarded page sends a visitor without
\* a session to /auth and one whose session has onboardingComplete = false to
\* /onboarding, and redirects nobody whose session has onboardingComplete = true.
C14_RequireSessionRedirects ==
  [][Ran("useRequireSession") =>
       /\ route \in ShellRoutes
       /\ IF StoredSession = Null THEN Redirected("/auth")
          ELSE IF Complete(StoredSession) THEN NotRedirected
          ELSE Redirected("/onboarding")]_vars
\* a guarded page has sent a session that is not complete to /onboarding
C14_Witness ==
  /\ lastOp.op = "useRequireSession"
  /\ route = "/onboarding" /\ pending
  /\ StoredSession # Null /\ ~Complete(StoredSession)

\* the email and the plan handleContinue was called with
Entered == Payload(lastOp'.arg)
\* onboardingComplete of the stored session when that is of the entered email
CarriedOver ==
  IF StoredSession # Null /\ Property(StoredSession, EmailName) = Entered[1]
  THEN Property(StoredSession, OnboardingCompleteName) ELSE Bool(FALSE)

C18_AuthMountRedirects ==
  [][Ran("AuthPage") =>
       /\ route = "/auth"
       /\ IF StoredSession = Null THEN NotRedirected
          ELSE IF Complete(StoredSession) THEN Redirected("/home")
          ELSE Redirected("/onboarding")]_vars
\* /auth has mounted over a session that is not complete
C18_Witness ==
  /\ lastOp.op = "AuthPage"
  /\ route = "/onboarding" /\ pending
  /\ StoredSession # Null /\ ~Complete(StoredSession)

\* the steps as the claim lists them, and as the page has them
SixSteps == <<"calendar", "contacts", "email", "messaging", "notifications", "ready">>
SevenSteps ==
  <<"calendar", "contacts", "email", "messaging", "notifications", "integrations",
    "ready">>
\* the step shown moves one forward, or one back, in the list steps
Forward(steps) == \E i \in 1..(Len(steps) - 1) : Shown = steps[i] /\ Shown' = steps[i + 1]
Back(steps) == \E i \in 2..Len(steps) : Shown = steps[i] /\ Shown' = steps[i - 1]

Rejected == lastOp'.threw /\ JSONstringify(lastOp'.arg).k # "throw"

\* C16: when the store rejects the write a binding's update issues, the binding
\* holds the new value all the same, no exception reaches the caller, and every
\* key of the store, that of the binding included, holds what it held.
C16_RejectedWriteKeepsStore ==
  [][Ran("update") /\ Rejected =>
       /\ hooks'[lastOp'.by].mounted /\ hooks'[lastOp'.by].state = lastOp'.arg
       /\ \A b \in Bindings \ {lastOp'.by} : hooks'[b] = hooks[b]
       /\ ~lastOp'.raised
       /\ \A key \in Keys : store'[key] = store[key]]_vars
\* a full store has rejected the array a binding now holds; the key keeps the
\* item it held
C16_Witness ==
  /\ lastOp.op = "update" /\ lastOp.threw /\ ~storageDenied
  /\ lastOp.arg = Arr(<<Num(0)>>) /\ hooks[lastOp.by].state = Arr(<<Num(0)>>)
  /\ lastOp.held = <<"[", "]">> /\ store[lastOp.key] = <<"[", "]">>

\* the session the step leaves in the store
SessionAfter == getSession(store').ret

\* C20 as stated: a stored session whose onboardingComplete is false becomes one
\* whose onboardingComplete is true by completeOnboarding alone, whatever
\* sign-ins, onboardings and sign-outs the browser has seen before.
C20_CompleteOnlyByCompleteOnboarding ==
  [][(/\ StoredSession # Null /\ ~Complete(StoredSession)
      /\ SessionAfter # Null /\ Complete(SessionAfter))
       => Ran("completeOnboarding")]_vars

\* the persisted states the claim tells apart: no session, a session that is not
\* complete over an onboarding not marked completed, a complete session; and the
\* one it leaves out, a session that is not complete over a completed onboarding
Completed ==
  Truthy(Property(readFromStorage(store, "tomo-onboarding", initialState).ret, CompletedName))
Cases == {"no session", "incomplete", "complete", "incomplete, completed"}
InCase(c) ==
  CASE c = "no session" -> StoredSession = Null
    [] c = "incomplete" -> StoredSession # Null /\ ~Complete(StoredSession) /\ ~Completed
    [] c = "complete" -> StoredSession # Null /\ Complete(StoredSession)
    [] OTHER -> StoredSession # Null /\ ~Complete(StoredSession) /\ Completed
\* where the chain that started at route r in case c is to end
Ends(r, c) ==
  CASE c = "no session" -> route = "/auth"
    [] c = "incomplete" -> route = "/onboarding"
    [] c = "complete" -> route = (IF r \in ShellRoutes THEN r ELSE "/home")
    [] OTHER -> TRUE

C21_ClearSessionRemovesSessionOnly ==
  [][Ran("clearSession") =>
       /\ store'[KEY] = NoItem
       /\ getSession(store').ret = Null
       /\ \A key \in Keys \ {KEY} : store'[key] = store[key]]_vars
\* a stored session is gone and the pane width next to it is still there
C21_Witness ==
  /\ lastOp.op = "clearSession" /\ ~lastOp.raised
  /\ lastOp.held = JSONstringify(SessionState(<<"a">>, Individual, FALSE)).s
  /\ store[KEY] = NoItem
  /\ store["tomo-pane-width"] = NumberToText(PaneWidthDefault)

\* the chat the store holds, and whether it holds a message of the user that no
\* reply has followed: fewer replies than messages sent
StoredChat == readFromStorage(store, "tomo-chat", initialMessages).ret
Unanswered ==
  Sent(StoredChat, User) > Sent(StoredChat, Tomo) - Sent(initialMessages, Tomo)

Chat == hooks["messages"].state
Due == {task \in tasks : task.fn = "handleSend"}
Appended(chat, from) == Arr(Payload(chat) \o <<TomoMessage(from)>>)
PersistedChat == store'["tomo-chat"] = JSONstringify(Chat').s
\* the visitor has left the page: a page load, or the sign-out, which replaces
\* the page
Left == lastOp.op \in {"open", "signOut"}

====
